---- MODULE Spec2Model ----
(***************************************************************************)
(* Model of src/tasks/gitea/gitea.ts: the Gitea reconciliation task.       *)
(* main() drives a fixed sequence of backend calls (org, teams, repos,     *)
(* hook), each made through doApiCall, which collects failures in the      *)
(* module-level array `errors`.  One action of the model is one answer of  *)
(* an awaited call together with the code that runs until the next await.  *)
(***************************************************************************)
EXTENDS Integers, Sequences, FiniteSets, TLC

VARIABLES
    teamConfig,     \* env.OTOMI_VALUES.teamConfig: tenant id -> its selfService.apps
    hasArgo,        \* env.OTOMI_VALUES.apps.argocd.enabled
    org,            \* backend: the organization exists
    teams,          \* backend: the names of the teams of the organization
    repos,          \* backend: the names of the repositories of the organization
    bindings,       \* backend: <<repo, team>> pairs
    hooks,          \* backend: hooks of the values repository, in creation order
    errors,         \* the module-level Error Log
    calls,          \* the calls issued in this run, each with its answer
    pc,             \* main's position
    existingTeams,  \* main's local: answer of the team listing
    existingRepos,  \* main's local: answer of the repository listing
    tektonUrl,      \* addHook's local
    lookups,        \* answers of the service-discovery lookups of this run
    hasHooks,       \* addHook's local: what hasTektonHook answered
    invoked,        \* the upsertTeam and upsertRepo invocations of this run
    exit,           \* how the run ended
    run,            \* number of runs that got past the availability wait
    faults,         \* number of injected backend failures so far
    prev            \* summary of the previous run that got past the availability wait

vars == <<teamConfig, hasArgo, org, teams, repos, bindings, hooks, errors, calls, pc,
          existingTeams, existingRepos, tektonUrl, lookups, hasHooks, invoked, exit,
          run, faults, prev>>

\* ---------------------------------------------------------------- bounds
MaxRuns == 2
MaxFaults == 1

TenantIds == {"a", "b"}
\* the tenant configurations: which tenants exist, and the selfService.apps of each
\* (a tenant with no selfService has the empty list)
AppLists == {{"harbor"}, {"gitea", "harbor"}}
TeamConfigs == [{} -> AppLists] \cup [{"a"} -> AppLists]
               \cup {[t \in TenantIds |-> IF t = "a" THEN {"gitea", "harbor"} ELSE {}]}

\* ------------------------------------------------------------- constants
orgName == "otomi"
otomiValuesRepoName == "values"
teamNameViewer == "otomi-viewer"

\* Answers of a call: -1 while pending, 200 on success, else the failure status.
Pending == 0 - 1
Ok == 200
FaultStatuses == {304, 400, 422}
\* the failures injected at a call site: the status tolerated there, if any, and
\* one status that is tolerated at another site
FaultsAt(tolerated) ==
    (IF tolerated = 0 THEN {} ELSE {tolerated}) \cup {IF tolerated = 422 THEN 400 ELSE 422}

\* A URL is kept as the sequence of its parts, so that String.includes is a search.
ListenerSegment == "el-tekton-listener"
DefaultTektonUrl == <<"http://", "el-tekton-listener", ".team-admin.svc.cluster.local:8080">>
ClusterIPs == {<<"10.0.0.1">>}
NoUrl == <<>>

Includes(url, segment) == \E i \in 1..Len(url) : url[i] = segment

\* A hook as the backend lists it.
Hook(hasConfig, hasUrl, url) == [config |-> hasConfig, hasUrl |-> hasUrl, url |-> url]
InitialHooks == { <<Hook(FALSE, FALSE, NoUrl),
                    Hook(TRUE, TRUE, <<"https://", "ci.example.com", "/hook">>)>>,
                  <<Hook(TRUE, FALSE, NoUrl)>> }

\* Permission tiers of CreateTeamOption.PermissionEnum
Read == "read"
Write == "write"
Admin == "admin"

Undefined == [defined |-> FALSE, list |-> {}]
Defined(l) == [defined |-> TRUE, list |-> l]
NoTeam == ""

\* ------------------------------------------------------------ templates
readOnlyTeam == [name |-> teamNameViewer, canCreateOrgRepo |-> FALSE,
                 includesAllRepositories |-> TRUE, permission |-> Read,
                 units |-> <<"repo.code">>]
editorTeam == [readOnlyTeam EXCEPT !.includesAllRepositories = FALSE, !.permission = Write]
adminTeam == [editorTeam EXCEPT !.permission = Admin]

\* Object.keys(teamConfig), in the order the keys were written
TenantOrder == <<"a", "b">>
teamIds == SelectSeq(TenantOrder, LAMBDA t : t \in DOMAIN teamConfig)

TeamName(teamId) == "team-" \o teamId
CompanionName(teamId) == "team-" \o teamId \o "-argocd"

\* mutant: the self-service flag is ignored and every tenant gets the editor template
TenantTeamOption_AlwaysEditor(teamId) == [editorTeam EXCEPT !.name = TeamName(teamId)]

\* The option main builds for a tenant's team (lines 179-182)
TenantTeamOption(teamId) ==
    IF "gitea" \in teamConfig[teamId]
    THEN [adminTeam EXCEPT !.name = TeamName(teamId)]
    ELSE [editorTeam EXCEPT !.name = TeamName(teamId)]

\* repoOption of main, and the option of a companion repository
repoOption == [name |-> otomiValuesRepoName, autoInit |-> FALSE, private |-> TRUE]
CompanionOption(teamId) == [repoOption EXCEPT !.autoInit = TRUE, !.name = CompanionName(teamId)]

\* ---------------------------------------------------------------- calls
NoCall == [op |-> "", inv |-> 0, desc |-> "", tolerated |-> 0, name |-> "", id |-> 0,
           permission |-> "", allRepos |-> FALSE, autoInit |-> FALSE, private |-> FALSE,
           team |-> "", url |-> NoUrl, res |-> Pending]

\* Array.prototype.find by name over a listing (names are unique in a listing,
\* which is kept as a set): the element found, NotFound when none
NotFound == [id |-> 0, name |-> ""]
FindByName(list, name) ==
    IF \E el \in list : el.name = name
    THEN CHOOSE el \in list : el.name = name
    ELSE NotFound

TeamDesc(name) == "Updating team \"" \o name \o "\" in org \"" \o orgName \o "\""

\* mutant: the lookup in existingTeams is skipped and the team is always created
upsertTeam_AlwaysCreates(existing, teamOption) ==
    [NoCall EXCEPT !.op = "orgCreateTeam", !.desc = TeamDesc(teamOption.name),
                   !.tolerated = 422, !.name = teamOption.name,
                   !.permission = teamOption.permission,
                   !.allRepos = teamOption.includesAllRepositories]

\* upsertTeam: the one call it issues
upsertTeam(existing, teamOption) ==
    LET existingTeam == FindByName(existing.list, teamOption.name) IN
    IF existingTeam # NotFound
    THEN [NoCall EXCEPT !.op = "orgEditTeam", !.desc = TeamDesc(teamOption.name),
                        !.tolerated = 422, !.name = teamOption.name,
                        !.id = existingTeam.id,
                        !.permission = teamOption.permission,
                        !.allRepos = teamOption.includesAllRepositories]
    ELSE [NoCall EXCEPT !.op = "orgCreateTeam", !.desc = TeamDesc(teamOption.name),
                        !.tolerated = 422, !.name = teamOption.name,
                        !.permission = teamOption.permission,
                        !.allRepos = teamOption.includesAllRepositories]

\* upsertRepo: its first call (create or edit)
upsertRepo(existing, option) ==
    IF FindByName(existing.list, option.name) = NotFound
    THEN [NoCall EXCEPT !.op = "createOrgRepo",
                        !.desc = "Creating repo \"" \o option.name \o "\" in org \"" \o orgName \o "\"",
                        !.tolerated = 422, !.name = option.name,
                        !.autoInit = option.autoInit, !.private = option.private]
    ELSE [NoCall EXCEPT !.op = "repoEdit",
                        !.desc = "Updating repo \"" \o option.name \o "\" in org \"" \o orgName \o "\"",
                        !.tolerated = 422, !.name = option.name,
                        !.autoInit = option.autoInit, !.private = option.private]

\* mutant: the bind is attempted whether or not a team name was supplied
upsertRepoBind_Always(option, teamName) ==
    << [NoCall EXCEPT !.op = "repoAddTeam",
                      !.desc = "Adding repo \"" \o option.name \o "\" to team \"" \o teamName \o "\"",
                      !.tolerated = 422, !.name = option.name, !.team = teamName] >>

\* mutant: the bind is issued a second time (a retry)
upsertRepoBind_Retried(option, teamName) ==
    IF teamName # NoTeam
    THEN LET bind == [NoCall EXCEPT !.op = "repoAddTeam",
                         !.desc = "Adding repo \"" \o option.name \o "\" to team \"" \o teamName \o "\"",
                         !.tolerated = 422, !.name = option.name, !.team = teamName]
         IN << bind, bind >>
    ELSE << >>

\* upsertRepo: the calls it issues after the first one has answered
upsertRepoBind(option, teamName) ==
    IF teamName # NoTeam
    THEN << [NoCall EXCEPT !.op = "repoAddTeam",
                           !.desc = "Adding repo \"" \o option.name \o "\" to team \"" \o teamName \o "\"",
                           !.tolerated = 422, !.name = option.name, !.team = teamName] >>
    ELSE << >>

orgCreateCall == [NoCall EXCEPT !.op = "orgCreate", !.desc = "Creating org \"" \o orgName \o "\"",
                                !.tolerated = 422, !.name = orgName]
orgListTeamsCall == [NoCall EXCEPT !.op = "orgListTeams",
                                   !.desc = "Getting all teams in org \"" \o orgName \o "\"",
                                   !.name = orgName]
orgListReposCall == [NoCall EXCEPT !.op = "orgListRepos",
                                   !.desc = "Getting all repos in org \"" \o orgName \o "\"",
                                   !.name = orgName]
\* mutant: the values repository is bound to the team of tenant a
bindViewerCall_TenantTeam == [NoCall EXCEPT !.op = "repoAddTeam",
                                            !.desc = "Adding repo values to team team-a",
                                            !.tolerated = 422, !.name = "values",
                                            !.team = "team-a"]
bindViewerCall == [NoCall EXCEPT !.op = "repoAddTeam",
                                 !.desc = "Adding repo values to team otomi-viewer",
                                 !.tolerated = 422, !.name = "values", !.team = "otomi-viewer"]
repoListHooksCall == [NoCall EXCEPT !.op = "repoListHooks",
                                    !.desc = "Getting hooks in repo \"otomi/values\"",
                                    !.tolerated = 400, !.name = "values"]
\* mutant: the hook creation tolerates 422 like the other mutating calls
repoCreateHookCall_Tolerates422(url) ==
    [NoCall EXCEPT !.op = "repoCreateHook",
                   !.desc = "Adding hook \"tekton\" to repo otomi/values",
                   !.tolerated = 422, !.name = "values", !.url = url]
repoCreateHookCall(url) == [NoCall EXCEPT !.op = "repoCreateHook",
                                          !.desc = "Adding hook \"tekton\" to repo otomi/values",
                                          !.tolerated = 304, !.name = "values", !.url = url]

\* ----------------------------------------------------- Tolerant Caller
\* doApiCall(errors, action, fn, tolerated): the Error Log after the call answered
doApiCall(errs, desc, res, tolerated) ==
    IF res = Ok \/ (tolerated # 0 /\ res = tolerated)
    THEN errs
    ELSE Append(errs, [desc |-> desc, detail |-> res])

\* what doApiCall returns for a listing: the list, or undefined after a failure
doApiCallResult(res, list) == IF res = Ok THEN Defined(list) ELSE Undefined

\* -------------------------------------------------------------- backend
\* the id the backend gives the team of a name
TeamNames == <<teamNameViewer, "team-a", "team-b">>
TeamId(name) == CHOOSE i \in 1..Len(TeamNames) : TeamNames[i] = name

\* what the backend answers when no failure is injected
BackendStatus(c) ==
    CASE c.op = "orgCreate"      -> IF org THEN 422 ELSE Ok
      [] ~org                    -> 404
      [] c.op = "orgCreateTeam"  -> IF c.name \in teams THEN 422 ELSE Ok
      [] c.op = "orgEditTeam"    -> IF \E t \in teams : TeamId(t) = c.id THEN Ok ELSE 404
      [] c.op = "createOrgRepo"  -> IF c.name \in repos THEN 422 ELSE Ok
      [] c.op = "repoEdit"       -> IF c.name \in repos THEN Ok ELSE 404
      [] c.op = "repoAddTeam"    -> IF c.name \in repos /\ c.team \in teams
                                    THEN Ok ELSE 404
      [] c.op \in {"repoListHooks", "repoCreateHook"}
                                 -> IF c.name \in repos THEN Ok ELSE 404
      [] OTHER                   -> Ok

\* the lists the backend returns
TeamList == {[id |-> TeamId(t), name |-> t] : t \in teams}
RepoList == {[id |-> 0, name |-> r] : r \in repos}

\* The backend answers call c: fault 0 is its own answer, any other fault is an
\* injected failure with that status, which leaves the backend as it was.
Answers(c, fault, res) ==
    /\ c.res = Pending
    /\ fault \in {0} \cup FaultsAt(c.tolerated)
    /\ fault # 0 => faults < MaxFaults
    /\ res = IF fault = 0 THEN BackendStatus(c) ELSE fault
    /\ faults' = IF fault = 0 THEN faults ELSE faults + 1
    /\ org' = (org \/ (c.op = "orgCreate" /\ res = Ok))
    /\ teams' = IF c.op = "orgCreateTeam" /\ res = Ok THEN teams \cup {c.name} ELSE teams
    /\ repos' = IF c.op = "createOrgRepo" /\ res = Ok THEN repos \cup {c.name} ELSE repos
    /\ bindings' = IF c.op = "repoAddTeam" /\ res = Ok
                   THEN bindings \cup {<<c.name, c.team>>} ELSE bindings
    /\ hooks' = IF c.op = "repoCreateHook" /\ res = Ok
                THEN Append(hooks, Hook(TRUE, TRUE, c.url)) ELSE hooks

Results == {Ok, 404} \cup FaultStatuses
Faults == {0} \cup FaultStatuses

Resolved(i, res) == [calls EXCEPT ![i].res = res]
PendingCalls == {i \in 1..Len(calls) : calls[i].res = Pending}

\* ------------------------------------------------------- Hook Reconciler
\* hasTektonHook after the listing answered: "true", "false", or "throws" when
\* a hook with a config has no url (hook.config.url.includes on undefined)
hasTektonHook(listed) ==
    LET l == IF listed.defined THEN listed.list ELSE << >> IN
    IF \E i \in 1..Len(l) : l[i].config /\ ~l[i].hasUrl
    THEN "throws"
    ELSE IF \E i \in 1..Len(l) : l[i].config /\ Includes(l[i].url, ListenerSegment)
         THEN "true"
         ELSE "false"

\* ----------------------------------------------------------------- main
cfg == <<teamConfig, hasArgo>>

\* an invocation of upsertTeam or upsertRepo, with the arguments it was given
Invocation(fn, existing, name, permission, allRepos, autoInit, teamName) ==
    [fn |-> fn, existing |-> existing, name |-> name, permission |-> permission,
     allRepos |-> allRepos, autoInit |-> autoInit, teamName |-> teamName]
TeamInvocation(existing, option) ==
    Invocation("upsertTeam", existing, option.name, option.permission,
               option.includesAllRepositories, FALSE, NoTeam)
RepoInvocation(existing, option, teamName) ==
    Invocation("upsertRepo", existing, option.name, "", FALSE, option.autoInit, teamName)
OptionOf(inv) == [name |-> inv.name, autoInit |-> inv.autoInit, private |-> TRUE]

Tag(c, k) == [c EXCEPT !.inv = k]

\* lines 228-233
Finish(errs) == IF Len(errs) > 0 THEN "failure" ELSE "success"

\* lines 176-184: the team fan-out issues one upsertTeam per tenant
TeamFanout(existing, base) ==
    [k \in 1..Len(teamIds) |-> Tag(upsertTeam(existing, TenantTeamOption(teamIds[k])), base + k)]
TeamFanoutInvocations(existing) ==
    [k \in 1..Len(teamIds) |-> TeamInvocation(existing, TenantTeamOption(teamIds[k]))]

\* lines 215-227: the companion fan-out issues the first call of one upsertRepo per tenant
CompanionFanout(existing, base) ==
    [k \in 1..Len(teamIds) |-> Tag(upsertRepo(existing, CompanionOption(teamIds[k])), base + k)]
\* mutant: every companion repository is bound to the viewer team
CompanionFanoutInvocations_ViewerTeam(existing) ==
    [k \in 1..Len(teamIds) |->
        RepoInvocation(existing, CompanionOption(teamIds[k]), teamNameViewer)]
CompanionFanoutInvocations(existing) ==
    [k \in 1..Len(teamIds) |->
        RepoInvocation(existing, CompanionOption(teamIds[k]), TeamName(teamIds[k]))]

Init ==
    /\ teamConfig \in TeamConfigs
    /\ hasArgo \in BOOLEAN
    /\ \/ org = FALSE /\ repos = {} /\ hooks = <<>>
       \/ org = TRUE /\ repos = {"values"} /\ hooks \in InitialHooks
    /\ teams = {}
    /\ bindings = {}
    /\ errors = <<>>
    /\ calls = <<>>
    /\ pc = "idle"
    /\ existingTeams = Undefined
    /\ existingRepos = Undefined
    /\ tektonUrl = NoUrl
    /\ lookups = <<>>
    /\ hasHooks = "none"
    /\ invoked = <<>>
    /\ exit = "none"
    /\ run = 0
    /\ faults = 0
    /\ prev = [exit |-> "none", clean |-> FALSE, url |-> NoUrl]

\* the exit status of the process for each way a run ends: a run that returns at
\* line 212 or passes line 232 ends with 0, process.exit(1) and a rejected main with 1
ExitStatus(e) == IF e \in {"success", "returned"} THEN 0 ELSE 1
\* the Error Log is printed only at line 229
Surfaced(e) == e = "failure"

\* every call of the run answered with success or with the status tolerated at its site
CleanCalls ==
    \A i \in 1..Len(calls) :
        calls[i].res = Ok \/ (calls[i].tolerated # 0 /\ calls[i].res = calls[i].tolerated)

\* the process starts: the module is loaded (errors = []) and main is called
Start ==
    /\ pc \in {"idle", "done"}
    /\ run < MaxRuns
    /\ prev' = IF exit \in {"none", "aborted"} THEN prev
               ELSE [exit |-> exit, clean |-> CleanCalls /\ errors = <<>>, url |-> tektonUrl]
    /\ errors' = <<>>
    /\ calls' = <<>>
    /\ invoked' = <<>>
    /\ lookups' = <<>>
    /\ hasHooks' = "none"
    /\ existingTeams' = Undefined
    /\ existingRepos' = Undefined
    /\ tektonUrl' = NoUrl
    /\ exit' = "none"
    /\ pc' = "wait"
    /\ UNCHANGED <<cfg, org, teams, repos, bindings, hooks, faults, run>>

\* mutant: the availability wait is not awaited, so its failure is reported while
\* main goes on to the org-create call
WaitTillAvailable_NotAwaited ==
    /\ pc = "wait"
    /\ \E available \in BOOLEAN :
        /\ calls' = <<orgCreateCall>> /\ pc' = "orgCreate" /\ run' = run + 1
        /\ exit' = IF available THEN exit ELSE "aborted"
    /\ UNCHANGED <<cfg, org, teams, repos, bindings, hooks, faults, errors, invoked, lookups,
                   hasHooks, existingTeams, existingRepos, tektonUrl, prev>>

\* line 159: waitTillAvailable answers or throws; lines 161-170 issue the org-create call
WaitTillAvailable ==
    /\ pc = "wait"
    /\ \E available \in BOOLEAN :
        IF available
        THEN calls' = <<orgCreateCall>> /\ pc' = "orgCreate" /\ exit' = exit /\ run' = run + 1
        ELSE calls' = calls /\ pc' = "done" /\ exit' = "aborted" /\ run' = run
    /\ UNCHANGED <<cfg, org, teams, repos, bindings, hooks, faults, errors, invoked, lookups,
                   hasHooks, existingTeams, existingRepos, tektonUrl, prev>>

\* line 170 answers; line 172 issues the team listing
OrgCreateReturns ==
    /\ pc = "orgCreate"
    /\ \E fault \in Faults, res \in Results :
        LET i == Len(calls)  c == calls[i] IN
        /\ Answers(c, fault, res)
        /\ errors' = doApiCall(errors, c.desc, res, c.tolerated)
        /\ calls' = Append(Resolved(i, res), orgListTeamsCall)
    /\ pc' = "listTeams"
    /\ UNCHANGED <<cfg, invoked, lookups, hasHooks, existingTeams, existingRepos, tektonUrl,
                   exit, run, prev>>

\* line 172 answers; lines 176-184 start the team fan-out (or, with no tenant, line 186)
ListTeamsReturns ==
    /\ pc = "listTeams"
    /\ \E fault \in Faults, res \in Results :
        LET i == Len(calls)  c == calls[i]
            listed == doApiCallResult(res, TeamList) IN
        /\ Answers(c, fault, res)
        /\ errors' = doApiCall(errors, c.desc, res, c.tolerated)
        /\ existingTeams' = listed
        /\ IF teamIds = <<>>
           THEN /\ calls' = Append(Resolved(i, res), Tag(upsertTeam(listed, readOnlyTeam), 1))
                /\ invoked' = <<TeamInvocation(listed, readOnlyTeam)>>
                /\ pc' = "viewerTeam"
           ELSE /\ calls' = Resolved(i, res) \o TeamFanout(listed, 0)
                /\ invoked' = TeamFanoutInvocations(listed)
                /\ pc' = "teamFanout"
    /\ UNCHANGED <<cfg, lookups, hasHooks, existingRepos, tektonUrl, exit, run, prev>>

\* mutant: the fan-out is left as soon as one upsertTeam has answered (the branches
\* are raced, not joined)
TeamReturns_FirstAnswer ==
    /\ pc = "teamFanout"
    /\ \E i \in PendingCalls, fault \in Faults, res \in Results :
        LET c == calls[i] IN
        /\ Answers(c, fault, res)
        /\ errors' = doApiCall(errors, c.desc, res, c.tolerated)
        /\ calls' = Append(Resolved(i, res),
                           Tag(upsertTeam(existingTeams, readOnlyTeam), Len(invoked) + 1))
        /\ invoked' = Append(invoked, TeamInvocation(existingTeams, readOnlyTeam))
        /\ pc' = "viewerTeam"
    /\ UNCHANGED <<cfg, lookups, hasHooks, existingTeams, existingRepos, tektonUrl, exit, run, prev>>

\* one upsertTeam of the fan-out answers; after the last one, line 186 upserts the viewer team
TeamReturns ==
    /\ pc = "teamFanout"
    /\ \E i \in PendingCalls, fault \in Faults, res \in Results :
        LET c == calls[i] IN
        /\ Answers(c, fault, res)
        /\ errors' = doApiCall(errors, c.desc, res, c.tolerated)
        /\ IF PendingCalls = {i}
           THEN /\ calls' = Append(Resolved(i, res),
                                   Tag(upsertTeam(existingTeams, readOnlyTeam), Len(invoked) + 1))
                /\ invoked' = Append(invoked, TeamInvocation(existingTeams, readOnlyTeam))
                /\ pc' = "viewerTeam"
           ELSE /\ calls' = Resolved(i, res)
                /\ invoked' = invoked
                /\ pc' = pc
    /\ UNCHANGED <<cfg, lookups, hasHooks, existingTeams, existingRepos, tektonUrl, exit, run, prev>>

\* line 186 answers; line 195 issues the repository listing
ViewerTeamReturns ==
    /\ pc = "viewerTeam"
    /\ \E fault \in Faults, res \in Results :
        LET i == Len(calls)  c == calls[i] IN
        /\ Answers(c, fault, res)
        /\ errors' = doApiCall(errors, c.desc, res, c.tolerated)
        /\ calls' = Append(Resolved(i, res), orgListReposCall)
    /\ pc' = "listRepos"
    /\ UNCHANGED <<cfg, invoked, lookups, hasHooks, existingTeams, existingRepos, tektonUrl,
                   exit, run, prev>>

\* line 195 answers; line 200 calls upsertRepo for the values repository
ListReposReturns ==
    /\ pc = "listRepos"
    /\ \E fault \in Faults, res \in Results :
        LET i == Len(calls)  c == calls[i]
            listed == doApiCallResult(res, RepoList) IN
        /\ Answers(c, fault, res)
        /\ errors' = doApiCall(errors, c.desc, res, c.tolerated)
        /\ existingRepos' = listed
        /\ calls' = Append(Resolved(i, res), Tag(upsertRepo(listed, repoOption), Len(invoked) + 1))
        /\ invoked' = Append(invoked, RepoInvocation(listed, repoOption, NoTeam))
    /\ pc' = "valuesRepo"
    /\ UNCHANGED <<cfg, lookups, hasHooks, existingTeams, tektonUrl, exit, run, prev>>

\* the create/edit of line 200 answers; upsertRepo finishes (lines 115-122) and
\* line 203 binds the values repository to the viewer team
ValuesRepoReturns ==
    /\ pc = "valuesRepo"
    /\ \E fault \in Faults, res \in Results :
        LET i == Len(calls)  c == calls[i] IN
        /\ Answers(c, fault, res)
        /\ errors' = doApiCall(errors, c.desc, res, c.tolerated)
        /\ calls' = Resolved(i, res)
                    \o [k \in 1..Len(upsertRepoBind(repoOption, NoTeam)) |->
                          Tag(upsertRepoBind(repoOption, NoTeam)[k], c.inv)]
                    \o <<bindViewerCall>>
    /\ pc' = "bindViewer"
    /\ UNCHANGED <<cfg, invoked, lookups, hasHooks, existingTeams, existingRepos, tektonUrl,
                   exit, run, prev>>

\* line 203 answers; line 210 calls addHook, which sets the default address
\* (line 126) and issues the first service-discovery lookup (line 129)
BindViewerReturns ==
    /\ pc = "bindViewer"
    /\ \E fault \in Faults, res \in Results :
        LET i == Len(calls)  c == calls[i] IN
        /\ Answers(c, fault, res)
        /\ errors' = doApiCall(errors, c.desc, res, c.tolerated)
        /\ calls' = Resolved(i, res)
    /\ tektonUrl' = DefaultTektonUrl
    /\ pc' = "lookup1"
    /\ UNCHANGED <<cfg, invoked, lookups, hasHooks, existingTeams, existingRepos, exit, run, prev>>

\* lines 128-135: the lookup inside try/catch answers; line 136 issues it again
FirstLookupReturns ==
    /\ pc = "lookup1"
    /\ \E found \in BOOLEAN, ip \in ClusterIPs :
        /\ tektonUrl' = IF found THEN ip ELSE tektonUrl
        /\ lookups' = Append(lookups, found)
    /\ pc' = "lookup2"
    /\ UNCHANGED <<cfg, org, teams, repos, bindings, hooks, faults, errors, calls, invoked,
                   hasHooks, existingTeams, existingRepos, exit, run, prev>>

\* line 136: the lookup outside try/catch answers or throws; line 138 calls
\* hasTektonHook, which issues the hook listing (line 69)
SecondLookupReturns ==
    /\ pc = "lookup2"
    /\ \E found \in BOOLEAN :
        /\ lookups' = Append(lookups, found)
        /\ IF found
           THEN calls' = Append(calls, repoListHooksCall) /\ pc' = "listHooks" /\ exit' = exit
           ELSE calls' = calls /\ pc' = "done" /\ exit' = "crashed"
    /\ UNCHANGED <<cfg, org, teams, repos, bindings, hooks, faults, errors, invoked,
                   hasHooks, existingTeams, existingRepos, tektonUrl, run, prev>>

\* what main does once addHook has returned (lines 212-233), from the calls and
\* the Error Log at that point
AfterAddHook(cs, errs) ==
    IF ~hasArgo
    THEN [calls |-> cs, invoked |-> invoked, pc |-> "done", exit |-> "returned"]
    ELSE IF teamIds = <<>>
         THEN [calls |-> cs, invoked |-> invoked, pc |-> "done", exit |-> Finish(errs)]
         ELSE [calls |-> cs \o CompanionFanout(existingRepos, Len(invoked)),
               invoked |-> invoked \o CompanionFanoutInvocations(existingRepos),
               pc |-> "repoFanout", exit |-> "none"]

\* the hook listing answers (lines 69-86); addHook creates the hook when none was
\* detected (lines 139-155), else returns to main
ListHooksReturns ==
    /\ pc = "listHooks"
    /\ \E fault \in Faults, res \in Results :
        LET i == Len(calls)  c == calls[i]
            errs == doApiCall(errors, c.desc, res, c.tolerated)
            found == hasTektonHook(doApiCallResult(res, hooks))
            next == AfterAddHook(Resolved(i, res), errs) IN
        /\ Answers(c, fault, res)
        /\ errors' = errs
        /\ hasHooks' = found
        /\ CASE found = "throws" ->
                  /\ calls' = Resolved(i, res)
                  /\ invoked' = invoked /\ pc' = "done" /\ exit' = "crashed"
             [] found = "false" ->
                  /\ calls' = Append(Resolved(i, res), repoCreateHookCall(tektonUrl))
                  /\ invoked' = invoked /\ pc' = "createHook" /\ exit' = exit
             [] OTHER ->
                  /\ calls' = next.calls
                  /\ invoked' = next.invoked /\ pc' = next.pc /\ exit' = next.exit
    /\ UNCHANGED <<cfg, lookups, existingTeams, existingRepos, tektonUrl, run, prev>>

\* the hook creation answers; addHook returns to main
CreateHookReturns ==
    /\ pc = "createHook"
    /\ \E fault \in Faults, res \in Results :
        LET i == Len(calls)  c == calls[i]
            errs == doApiCall(errors, c.desc, res, c.tolerated)
            next == AfterAddHook(Resolved(i, res), errs) IN
        /\ Answers(c, fault, res)
        /\ errors' = errs
        /\ calls' = next.calls
        /\ invoked' = next.invoked /\ pc' = next.pc /\ exit' = next.exit
    /\ UNCHANGED <<cfg, lookups, hasHooks, existingTeams, existingRepos, tektonUrl, run, prev>>

\* mutant: a failing branch of the companion fan-out replaces the Error Log by its
\* own entry (the last failure to arrive wins)
CompanionReturns_LastErrorWins ==
    /\ pc = "repoFanout"
    /\ \E i \in PendingCalls, fault \in Faults, res \in Results :
        LET c == calls[i]
            errs == doApiCall(<< >>, c.desc, res, c.tolerated)
            binds == IF c.op = "repoAddTeam" THEN << >>
                     ELSE upsertRepoBind(OptionOf(invoked[c.inv]), invoked[c.inv].teamName)
            cs == Resolved(i, res) \o [k \in 1..Len(binds) |-> Tag(binds[k], c.inv)] IN
        /\ Answers(c, fault, res)
        /\ errors' = IF errs = << >> THEN errors ELSE errs
        /\ calls' = cs
        /\ IF \A k \in 1..Len(cs) : cs[k].res # Pending
           THEN pc' = "done" /\ exit' = Finish(errors')
           ELSE pc' = pc /\ exit' = exit
    /\ UNCHANGED <<cfg, invoked, lookups, hasHooks, existingTeams, existingRepos, tektonUrl,
                   run, prev>>

\* a call of a companion upsertRepo answers: after the create/edit, the bind of
\* lines 115-121 is issued; after the last call of the fan-out, lines 228-233
CompanionReturns ==
    /\ pc = "repoFanout"
    /\ \E i \in PendingCalls, fault \in Faults, res \in Results :
        LET c == calls[i]
            errs == doApiCall(errors, c.desc, res, c.tolerated)
            binds == IF c.op = "repoAddTeam" THEN << >>
                     ELSE upsertRepoBind(OptionOf(invoked[c.inv]), invoked[c.inv].teamName)
            cs == Resolved(i, res) \o [k \in 1..Len(binds) |-> Tag(binds[k], c.inv)] IN
        /\ Answers(c, fault, res)
        /\ errors' = errs
        /\ calls' = cs
        /\ IF \A k \in 1..Len(cs) : cs[k].res # Pending
           THEN pc' = "done" /\ exit' = Finish(errs)
           ELSE pc' = pc /\ exit' = exit
    /\ UNCHANGED <<cfg, invoked, lookups, hasHooks, existingTeams, existingRepos, tektonUrl,
                   run, prev>>

Next ==
    \/ Start
    \/ WaitTillAvailable
    \/ OrgCreateReturns
    \/ ListTeamsReturns
    \/ TeamReturns
    \/ ViewerTeamReturns
    \/ ListReposReturns
    \/ ValuesRepoReturns
    \/ BindViewerReturns
    \/ FirstLookupReturns
    \/ SecondLookupReturns
    \/ ListHooksReturns
    \/ CreateHookReturns
    \/ CompanionReturns

Spec == Init /\ [][Next]_vars

\* ================================================================ claims
Tolerated(c) == c.res = Ok \/ (c.tolerated # 0 /\ c.res = c.tolerated)
Recorded(c) == c.res # Pending /\ ~Tolerated(c)
EntriesOf(desc) == {k \in 1..Len(errors) : errors[k].desc = desc}
CallsOf(k, ops) == {i \in 1..Len(calls) : calls[i].inv = k /\ calls[i].op \in ops}
Returned == pc = "done" /\ exit \in {"success", "failure", "returned"}

\* C1 (as claimed): in every run that got past the availability wait and in which
\* main returned, with the automation feature enabled or disabled, a non-empty
\* Error Log ends the run with a non-zero exit status and the log surfaced, and
\* an empty Error Log ends it with exit status 0.
C1_ErrorLogDecidesExit ==
    Returned =>
        /\ errors # << >> => ExitStatus(exit) # 0 /\ Surfaced(exit)
        /\ errors = << >> => ExitStatus(exit) = 0

\* C2: the tolerated code of every call site is the one given for it (422 for
\* org/team/repo create, edit and bind, 400 for the hook listing, 304 for the
\* hook creation, none for the team and repository listings); an answered call
\* has no entry in the Error Log when it succeeded or failed with the tolerated
\* code of its site, and exactly one entry, with its action description, when it
\* failed otherwise; every entry belongs to such a call; and the answer of a
\* failed call never ends the run: the next step is taken.
SiteTolerated(op) ==
    CASE op \in {"orgCreate", "orgCreateTeam", "orgEditTeam", "createOrgRepo", "repoEdit",
                 "repoAddTeam"} -> 422
      [] op = "repoListHooks" -> 400
      [] op = "repoCreateHook" -> 304
      [] OTHER -> 0
C2_Log ==
    /\ \A i \in 1..Len(calls) :
        /\ calls[i].tolerated = SiteTolerated(calls[i].op)
        /\ Cardinality(EntriesOf(calls[i].desc)) = IF Recorded(calls[i]) THEN 1 ELSE 0
        /\ Recorded(calls[i]) =>
              \E k \in EntriesOf(calls[i].desc) : errors[k].detail = calls[i].res
    /\ Len(errors) = Cardinality({i \in 1..Len(calls) : Recorded(calls[i])})
C2_Continues ==
    \A i \in 1..Len(calls) :
        (calls[i].res = Pending /\ Len(calls') >= i /\ calls'[i].res \notin {Pending, Ok})
        => \/ \E j \in 1..Len(calls') : calls'[j].res = Pending
           \/ pc' = "lookup1"
           \/ pc' = "done" /\ exit' \in {"success", "failure", "returned"}
C2_TolerantCaller == [](C2_Log) /\ [][C2_Continues]_vars
C2_Witness ==
    /\ \E i \in 1..Len(calls) : calls[i].res = calls[i].tolerated
    /\ \E i \in 1..Len(calls) : Recorded(calls[i]) /\ calls[i].tolerated = 0
    /\ pc = "done" /\ exit = "failure"

\* C3: every upsertTeam invocation issues exactly one backend call: the edit-team
\* call carrying the id of the team of that name in existingTeams when there is
\* one, the create-team call when there is none, never both; and no team name
\* is upserted twice in a run.
TeamOps == {"orgEditTeam", "orgCreateTeam"}
C3_UpsertTeamOneCall ==
    /\ \A k \in 1..Len(invoked) : invoked[k].fn = "upsertTeam" =>
        /\ Cardinality(CallsOf(k, TeamOps)) = 1
        /\ Cardinality({i \in 1..Len(calls) : calls[i].inv = k}) = 1
        /\ \A i \in CallsOf(k, TeamOps) :
            /\ calls[i].name = invoked[k].name
            /\ IF \E el \in invoked[k].existing.list : el.name = invoked[k].name
               THEN /\ calls[i].op = "orgEditTeam"
                    /\ \E el \in invoked[k].existing.list :
                          el.name = invoked[k].name /\ el.id = calls[i].id
               ELSE calls[i].op = "orgCreateTeam"
    /\ \A k, l \in 1..Len(invoked) :
        (invoked[k].fn = "upsertTeam" /\ invoked[l].fn = "upsertTeam" /\ k # l)
        => invoked[k].name # invoked[l].name
    /\ \A i \in 1..Len(calls) : calls[i].op \in TeamOps =>
        calls[i].inv \in 1..Len(invoked) /\ invoked[calls[i].inv].fn = "upsertTeam"
C3_Witness ==
    /\ \E i \in 1..Len(calls) : calls[i].op = "orgEditTeam" /\ calls[i].res = Ok
    /\ \E i \in 1..Len(calls) : calls[i].op = "orgCreateTeam" /\ calls[i].res = Ok
    /\ Len(teamIds) = 2

\* C4: for every configured tenant the option passed to upsertTeam (and sent to
\* the backend) is named team-<tenantId>, has includesAllRepositories = false,
\* and has permission Admin if the tenant's self-service app list contains
\* 'gitea' and Write if not; the viewer team is upserted with permission Read
\* and includesAllRepositories = true whatever the tenants are.
TeamsStarted == pc \notin {"idle", "wait", "orgCreate", "listTeams"} /\ exit # "aborted"
ViewerStarted == TeamsStarted /\ pc # "teamFanout"
C4_TeamPermissions ==
    /\ TeamsStarted => \A t \in DOMAIN teamConfig :
        \E k \in 1..Len(invoked) :
            /\ invoked[k].fn = "upsertTeam" /\ invoked[k].name = TeamName(t)
            /\ ("gitea" \in teamConfig[t]) <=> (invoked[k].permission = Admin)
            /\ ("gitea" \notin teamConfig[t]) <=> (invoked[k].permission = Write)
            /\ invoked[k].allRepos = FALSE
    /\ ViewerStarted =>
        \E k \in 1..Len(invoked) :
            /\ invoked[k].fn = "upsertTeam" /\ invoked[k].name = teamNameViewer
            /\ invoked[k].permission = Read /\ invoked[k].allRepos = TRUE
    /\ \A k \in 1..Len(invoked) : invoked[k].fn = "upsertTeam" =>
        /\ \/ invoked[k].name = teamNameViewer /\ invoked[k].permission = Read
              /\ invoked[k].allRepos
           \/ \E t \in DOMAIN teamConfig :
                /\ invoked[k].name = TeamName(t) /\ ~invoked[k].allRepos
                /\ invoked[k].permission = IF "gitea" \in teamConfig[t] THEN Admin ELSE Write
        /\ \A i \in CallsOf(k, TeamOps) :
            /\ calls[i].permission = invoked[k].permission
            /\ calls[i].allRepos = invoked[k].allRepos
C4_Witness ==
    /\ ViewerStarted
    /\ \E t \in DOMAIN teamConfig : "gitea" \in teamConfig[t]
    /\ \E t \in DOMAIN teamConfig : "gitea" \notin teamConfig[t]

\* C5: every upsertRepo invocation issues exactly one of create-repository (name
\* absent from existingRepos) and edit-repository (name present); it issues a
\* bind-to-team call if and only if a team name was supplied, and then after
\* the create/edit call has answered, in the create and in the edit branch
\* alike, and also when the create/edit call failed.
RepoOps == {"createOrgRepo", "repoEdit"}
C5_UpsertRepo ==
    \A k \in 1..Len(invoked) : invoked[k].fn = "upsertRepo" =>
        /\ Cardinality(CallsOf(k, RepoOps)) = 1
        /\ \A i \in CallsOf(k, RepoOps) :
            /\ calls[i].name = invoked[k].name
            /\ (calls[i].op = "repoEdit") <=>
                  (\E el \in invoked[k].existing.list : el.name = invoked[k].name)
            /\ Cardinality(CallsOf(k, {"repoAddTeam"})) =
                  IF invoked[k].teamName # NoTeam /\ calls[i].res # Pending THEN 1 ELSE 0
            /\ \A j \in CallsOf(k, {"repoAddTeam"}) :
                  j > i /\ calls[j].name = invoked[k].name /\ calls[j].team = invoked[k].teamName
C5_Witness ==
    /\ \E k \in 1..Len(invoked) :
        /\ invoked[k].teamName # NoTeam
        /\ \E i \in CallsOf(k, {"repoEdit"}) : Recorded(calls[i])
        /\ CallsOf(k, {"repoAddTeam"}) # {}
    /\ \E k \in 1..Len(invoked) :
        invoked[k].fn = "upsertRepo" /\ invoked[k].teamName = NoTeam /\ pc = "done"

\* C6 (as claimed): hasTektonHook answers true if and only if at least one hook
\* of the listing has a configured URL containing 'el-tekton-listener', and
\* false when the listing fails or is empty; addHook issues the create-hook
\* call if and only if the detection answered false.  (The hooks of the backend
\* are those of the listing until a hook creation of this run has succeeded.)
HookListings == {i \in 1..Len(calls) : calls[i].op = "repoListHooks" /\ calls[i].res # Pending}
HookCreations == {i \in 1..Len(calls) : calls[i].op = "repoCreateHook"}
ListenerHookListed ==
    \E h \in 1..Len(hooks) :
        hooks[h].config /\ hooks[h].hasUrl /\ Includes(hooks[h].url, ListenerSegment)
C6_HookDetection ==
    /\ HookListings = {} => HookCreations = {}
    /\ \A i \in HookListings :
        /\ (\A j \in HookCreations : calls[j].res # Ok) =>
            /\ (hasHooks = "true") <=> (calls[i].res = Ok /\ ListenerHookListed)
            /\ (calls[i].res # Ok \/ hooks = << >>) => hasHooks = "false"
        /\ (HookCreations # {}) <=> (hasHooks = "false")
        /\ Cardinality(HookCreations) <= 1

\* C7 (as claimed): a run against the backend left by a fully successful run
\* (same configuration, no failure injected, every call succeeding or
\* answering its tolerated status) issues no call that creates a team, a repository or a hook, leaves
\* the Error Log empty and, when main returns, ends with exit status 0,
\* whether the listener address was resolved or the fallback was used.
CreateOps == {"orgCreateTeam", "createOrgRepo", "repoCreateHook"}
AfterSuccessfulRun ==
    run >= 2 /\ prev.clean /\ prev.exit \in {"success", "returned"} /\ faults = 0
C7_RerunCreatesNothing ==
    (AfterSuccessfulRun /\ CleanCalls) =>
        /\ \A i \in 1..Len(calls) : calls[i].op \notin CreateOps
        /\ errors = << >>
        /\ Returned => ExitStatus(exit) = 0

\* C8 (as claimed): when a service-discovery lookup of the listener address has
\* failed, addHook does not raise: it goes on to the hook detection, creates
\* the hook with the address in use when none is detected (the default
\* in-cluster address when the first lookup failed), and main goes on.
LookupFailed == \E i \in 1..Len(lookups) : ~lookups[i]
C8_LookupFailureFallsBack ==
    (Len(lookups) = 2 /\ LookupFailed) =>
        /\ \E i \in 1..Len(calls) : calls[i].op = "repoListHooks"
        /\ exit = "crashed" => hasHooks = "throws"
        /\ \A j \in HookCreations : ~lookups[1] => calls[j].url = DefaultTektonUrl

\* C9: with tenants a (self-service 'gitea') and b (without), the automation
\* feature enabled, an empty backend and every call and lookup succeeding, the
\* finished first run has issued exactly these creating and binding calls: org
\* create; create team-a with Admin, team-b with Write, the viewer team with
\* Read; create repo values and bind it to the viewer team; create the hook;
\* create team-a-argocd bound to team-a and team-b-argocd bound to team-b; and
\* it has ended with exit status 0 and an empty Error Log.
ScenarioAB ==
    /\ DOMAIN teamConfig = {"a", "b"}
    /\ "gitea" \in teamConfig["a"] /\ "gitea" \notin teamConfig["b"]
    /\ hasArgo
    /\ run = 1
    /\ pc = "done" /\ exit # "aborted"
    /\ \A i \in 1..Len(calls) : calls[i].res = Ok
    /\ lookups = <<TRUE, TRUE>>
Issued == {<<calls[i].op, calls[i].name, calls[i].permission, calls[i].team>> :
              i \in {j \in 1..Len(calls) : calls[j].op \notin {"orgListTeams", "orgListRepos",
                                                              "repoListHooks"}}}
C9_EndToEnd ==
    ScenarioAB =>
        /\ Issued = { <<"orgCreate", orgName, "", "">>,
                      <<"orgCreateTeam", "team-a", Admin, "">>,
                      <<"orgCreateTeam", "team-b", Write, "">>,
                      <<"orgCreateTeam", teamNameViewer, Read, "">>,
                      <<"createOrgRepo", "values", "", "">>,
                      <<"repoAddTeam", "values", "", teamNameViewer>>,
                      <<"repoCreateHook", "values", "", "">>,
                      <<"createOrgRepo", "team-a-argocd", "", "">>,
                      <<"repoAddTeam", "team-a-argocd", "", "team-a">>,
                      <<"createOrgRepo", "team-b-argocd", "", "">>,
                      <<"repoAddTeam", "team-b-argocd", "", "team-b">> }
        /\ Len(calls) = 14
        /\ exit = "success" /\ ExitStatus(exit) = 0
        /\ errors = << >>
C9_Witness == ScenarioAB

\* C10 (as claimed): in a finished run that got past the availability wait, no
\* create, edit or bind call names a companion repository when the automation
\* feature is disabled; when it is enabled, every configured tenant has exactly
\* one companion repository team-<tenantId>-argocd (private, auto-init)
\* upserted and bound to team-<tenantId>.
CompanionCalls(t, ops) ==
    {i \in 1..Len(calls) : calls[i].name = CompanionName(t) /\ calls[i].op \in ops}
C10_CompanionRepos ==
    (pc = "done" /\ exit # "aborted") =>
        IF hasArgo
        THEN \A t \in DOMAIN teamConfig :
                /\ Cardinality(CompanionCalls(t, RepoOps)) = 1
                /\ \A i \in CompanionCalls(t, RepoOps) : calls[i].autoInit /\ calls[i].private
                /\ Cardinality(CompanionCalls(t, {"repoAddTeam"})) = 1
                /\ \A i \in CompanionCalls(t, {"repoAddTeam"}) : calls[i].team = TeamName(t)
        ELSE \A t \in TenantIds : CompanionCalls(t, RepoOps \cup {"repoAddTeam"}) = {}

\* C11: a call is issued only after the calls its step depends on have answered:
\* the org-create call has answered before the team listing and the repository
\* listing are issued; the team listing before any team upsert; the repository
\* listing before any repository upsert; the create/edit of the values
\* repository before its bind to the viewer team, and that bind before the hook
\* listing and the hook creation; and the team upsert of every tenant before
\* any call of a companion repository.
IsOp(ops, c) == c.op \in ops
IsValuesUpsert(c) == c.op \in RepoOps /\ c.name = otomiValuesRepoName
IsViewerBind(c) == c.op = "repoAddTeam" /\ c.name = otomiValuesRepoName
IsRepoUpsertCall(c) == c.op \in RepoOps \cup {"repoAddTeam"}
IsHookCall(c) == c.op \in {"repoListHooks", "repoCreateHook"}
IsCompanionCall(c) == IsRepoUpsertCall(c) /\ c.name # otomiValuesRepoName
IsTenantTeamUpsert(t, c) == c.op \in TeamOps /\ c.name = TeamName(t)
\* some call satisfying First was issued, and all of them had answered, before
\* any call satisfying Then was issued
CompletesBefore(First(_), Then(_)) ==
    LET thens == {j \in 1..Len(calls) : Then(calls[j])}
        firsts == {i \in 1..Len(calls) : First(calls[i])}
    IN thens # {} =>
        /\ firsts # {}
        /\ \A i \in firsts : calls[i].res # Pending /\ \A j \in thens : i < j
C11_Ordering ==
    /\ CompletesBefore(LAMBDA c : IsOp({"orgCreate"}, c),
                       LAMBDA c : IsOp({"orgListTeams", "orgListRepos"}, c))
    /\ CompletesBefore(LAMBDA c : IsOp({"orgListTeams"}, c), LAMBDA c : IsOp(TeamOps, c))
    /\ CompletesBefore(LAMBDA c : IsOp({"orgListRepos"}, c), IsRepoUpsertCall)
    /\ CompletesBefore(IsValuesUpsert, IsViewerBind)
    /\ CompletesBefore(IsViewerBind, IsHookCall)
    /\ \A t \in DOMAIN teamConfig :
          CompletesBefore(LAMBDA c : IsTenantTeamUpsert(t, c), IsCompanionCall)
C11_Witness ==
    /\ Len(teamIds) = 2
    /\ \E j \in 1..Len(calls) : IsCompanionCall(calls[j]) /\ calls[j].op = "repoAddTeam"
    /\ \E j \in 1..Len(calls) : calls[j].op = "repoCreateHook"
    /\ \E i, j \in 1..Len(calls) :
          /\ i < j /\ calls[i].op \in TeamOps /\ calls[j].op \in TeamOps
          /\ calls[i].name = TeamName("a") /\ calls[j].name = TeamName("b")
          /\ calls[i].res \notin {Pending, Ok}

\* C12: the outcome of a run does not depend on the order in which the branches
\* of a fan-out are answered. Whatever that order, the calls issued are exactly
\* those fixed by the configuration, the two listings and the hook detection
\* (each once); the Error Log holds, as a multiset, exactly one unaltered entry
\* per answered call that failed with a non-tolerated status, none lost and
\* none duplicated; and the way the run ends is fixed by the configuration, the
\* lookups, the detection and that log.
CallKey(c) == <<c.op, c.name, c.team>>
IssuedKeys == {CallKey(calls[i]) : i \in 1..Len(calls)}
TeamUpsertKey(name) ==
    <<IF FindByName(existingTeams.list, name) = NotFound THEN "orgCreateTeam" ELSE "orgEditTeam",
      name, NoTeam>>
RepoUpsertKey(name) ==
    <<IF FindByName(existingRepos.list, name) = NotFound THEN "createOrgRepo" ELSE "repoEdit",
      name, NoTeam>>
ExpectedKeys ==
    {<<"orgCreate", orgName, NoTeam>>, <<"orgListTeams", orgName, NoTeam>>,
     <<"orgListRepos", orgName, NoTeam>>, TeamUpsertKey(teamNameViewer),
     RepoUpsertKey(otomiValuesRepoName), <<"repoAddTeam", "values", "otomi-viewer">>,
     <<"repoListHooks", "values", NoTeam>>}
    \cup {TeamUpsertKey(TeamName(t)) : t \in DOMAIN teamConfig}
    \cup (IF hasHooks = "false" THEN {<<"repoCreateHook", "values", NoTeam>>} ELSE {})
    \cup (IF hasArgo
          THEN {RepoUpsertKey(CompanionName(t)) : t \in DOMAIN teamConfig}
               \cup {<<"repoAddTeam", CompanionName(t), TeamName(t)>> : t \in DOMAIN teamConfig}
          ELSE {})
SeqBag(s) == [e \in {s[k] : k \in 1..Len(s)} |-> Cardinality({k \in 1..Len(s) : s[k] = e})]
EntryOf(c) == [desc |-> c.desc, detail |-> c.res]
RecordedEntries ==
    LET failed == SelectSeq(calls, Recorded) IN [k \in 1..Len(failed) |-> EntryOf(failed[k])]
ExpectedExit ==
    IF (Len(lookups) = 2 /\ ~lookups[2]) \/ hasHooks = "throws" THEN "crashed"
    ELSE IF ~hasArgo THEN "returned"
    ELSE Finish(errors)
C12_OrderIndependent ==
    /\ IssuedKeys \subseteq ExpectedKeys
    /\ Cardinality(IssuedKeys) = Len(calls)
    /\ SeqBag(errors) = SeqBag(RecordedEntries)
    /\ Returned => IssuedKeys = ExpectedKeys /\ \A i \in 1..Len(calls) : calls[i].res # Pending
    /\ (pc = "done" /\ exit # "aborted") => exit = ExpectedExit
\* two branches of a fan-out have failed and were answered in the reverse of the
\* order in which they were issued
C12_Witness ==
    /\ Returned /\ exit = "failure"
    /\ \E i, j \in 1..Len(calls), k, l \in 1..Len(errors) :
          /\ i < j /\ l < k
          /\ IsCompanionCall(calls[i]) /\ IsCompanionCall(calls[j])
          /\ calls[i].op \in RepoOps /\ calls[j].op \in RepoOps
          /\ errors[k] = EntryOf(calls[i]) /\ errors[l] = EntryOf(calls[j])

\* C13 (as claimed): over consecutive runs in which the backend answered every
\* call itself, the values repository never holds more than one hook pointing
\* at the listener address (the default in-cluster address or the address
\* service discovery resolved): the hook an earlier run created is detected by
\* a later run, which creates none.
ListenerAddresses == {DefaultTektonUrl} \cup ClusterIPs
ListenerHooks == {h \in 1..Len(hooks) : hooks[h].hasUrl /\ hooks[h].url \in ListenerAddresses}
C13_AtMostOneListenerHook == faults = 0 => Cardinality(ListenerHooks) <= 1

\* C14 (as claimed): no failure escapes as an exception. Whatever the backend
\* answers, whatever the service-discovery lookup answers and whatever hooks are
\* listed, hooks whose config has no url included, hasTektonHook returns true
\* or false and, when the lookups answered, addHook returns to main, which is
\* not rejected.
C14_NoExceptionEscapes ==
    /\ hasHooks \in {"none", "true", "false"}
    /\ (Len(lookups) = 2 /\ ~LookupFailed) => exit # "crashed"

\* C15: the bindings this system makes are the claimed ones. The values
\* repository is only ever bound to the viewer team, the team of the name the
\* viewer-team upsert created or edited, and to no tenant team; a companion
\* repository team-<id>-argocd is only ever bound to team-<id> of the same
\* tenant. After a run that ended successfully, the backend having answered
\* every call itself, the values repository is bound to the viewer team and
\* the companion repository of every tenant to that tenant's team.
ViewerUpsertNames ==
    {calls[i].name : i \in {j \in 1..Len(calls) :
        calls[j].op \in TeamOps /\ calls[j].name \notin {TeamName(t) : t \in TenantIds}}}
AllowedBindings ==
    {<<otomiValuesRepoName, teamNameViewer>>}
    \cup {<<CompanionName(t), TeamName(t)>> : t \in DOMAIN teamConfig}
RequiredBindings ==
    {<<otomiValuesRepoName, teamNameViewer>>}
    \cup (IF hasArgo THEN {<<CompanionName(t), TeamName(t)>> : t \in DOMAIN teamConfig} ELSE {})
SuccessfulRun == Returned /\ errors = << >> /\ ExitStatus(exit) = 0
C15_Bindings ==
    /\ bindings \subseteq AllowedBindings
    /\ \A i \in 1..Len(calls) : calls[i].op = "repoAddTeam" =>
          /\ <<calls[i].name, calls[i].team>> \in AllowedBindings
          /\ calls[i].name = otomiValuesRepoName => calls[i].team \in ViewerUpsertNames
    /\ (SuccessfulRun /\ faults = 0) => RequiredBindings \subseteq bindings
C15_Witness ==
    /\ SuccessfulRun /\ faults = 0 /\ hasArgo /\ Len(teamIds) = 2
    /\ Cardinality(bindings) = 3

\* C16: when the availability wait fails the run aborts at once: it has issued
\* no backend call, has appended nothing to the Error Log, has taken no other
\* step, and is over.
C16_AvailabilityFailureAborts ==
    exit = "aborted" =>
        /\ pc = "done"
        /\ calls = << >> /\ errors = << >> /\ invoked = << >> /\ lookups = << >>
\* a run aborted on a backend that an earlier run has populated
C16_Witness == exit = "aborted" /\ run = 1 /\ org /\ teams # {}

\* C17 (as claimed): a run that got past the availability wait and in which
\* every call and lookup has answered ends in one of its two outcomes, decided
\* from the Error Log: failure, with the log surfaced, when the log is not
\* empty, success when it is empty; and it ends only after the remaining steps
\* were attempted: the hook listing was issued whatever failed before it.
RunOver == pc = "done" /\ exit \notin {"none", "aborted"}
C17_RunReachesOutcome ==
    RunOver =>
        /\ exit \in {"success", "failure", "returned"}
        /\ errors # << >> <=> Surfaced(exit)
        /\ \E i \in 1..Len(calls) : calls[i].op = "repoListHooks"

\* C18: a run issues only org-create, listing, team create/edit, repository
\* create/edit, bind, hook-listing and hook-create calls: no delete call and no
\* org-edit call; once past the availability wait it has issued the org-create
\* call exactly once; and no step is called twice, also after it failed: one
\* call per listing, one create or edit per team name and per repository name,
\* one bind per repository, one hook listing and at most one hook creation.
IssuedOps == {"orgCreate", "orgListTeams", "orgListRepos", "orgCreateTeam", "orgEditTeam",
              "createOrgRepo", "repoEdit", "repoAddTeam", "repoListHooks", "repoCreateHook"}
StepOf(c) ==
    <<CASE c.op \in TeamOps -> "team upsert"
        [] c.op \in RepoOps -> "repo upsert"
        [] OTHER -> c.op,
      c.name>>
PastWait == pc \notin {"idle", "wait"} /\ exit # "aborted"
C18_NoDeleteNoRetry ==
    /\ \A i \in 1..Len(calls) : calls[i].op \in IssuedOps
    /\ Cardinality({StepOf(calls[i]) : i \in 1..Len(calls)}) = Len(calls)
    /\ PastWait => Cardinality({i \in 1..Len(calls) : calls[i].op = "orgCreate"}) = 1
\* a finished run in which calls failed, some with a recorded error
C18_Witness ==
    /\ Returned /\ Len(errors) >= 2 /\ hasArgo /\ Len(teamIds) = 2
    /\ \E i \in 1..Len(calls) : calls[i].op = "orgCreate" /\ calls[i].res \notin {Pending, Ok}

\* C19 (as claimed): when the team listing (the repository listing) has failed,
\* the failure is in the Error Log, the list is taken as empty and the run goes
\* on: every team upsert (repository upsert) of the run is a create call, also
\* for a name that exists on the backend, and its 422 answer is not recorded;
\* and when main has returned the run has ended with failure status.
ListingFailed(op) ==
    \E i \in 1..Len(calls) : calls[i].op = op /\ calls[i].res \notin {Pending, Ok}
ListingLogged(op) ==
    \E i \in 1..Len(calls), k \in 1..Len(errors) :
        calls[i].op = op /\ errors[k] = EntryOf(calls[i])
CreateBranch(create, edit) ==
    \A i \in 1..Len(calls) :
        /\ calls[i].op # edit
        /\ (calls[i].op = create /\ calls[i].res = 422) =>
              \A k \in 1..Len(errors) : errors[k].desc # calls[i].desc
\* what a failed listing does to the upserts, whatever way the run ends
ListingFailureTakesCreateBranch ==
    /\ ListingFailed("orgListTeams") =>
          /\ ListingLogged("orgListTeams") /\ ~existingTeams.defined
          /\ CreateBranch("orgCreateTeam", "orgEditTeam")
          /\ \E i \in 1..Len(calls) : calls[i].op = "orgCreateTeam"
    /\ ListingFailed("orgListRepos") =>
          /\ ListingLogged("orgListRepos") /\ ~existingRepos.defined
          /\ CreateBranch("createOrgRepo", "repoEdit")
          /\ \E i \in 1..Len(calls) : calls[i].op = "createOrgRepo"
C19_ListingFailure ==
    /\ ListingFailureTakesCreateBranch
    /\ (Returned /\ (ListingFailed("orgListTeams") \/ ListingFailed("orgListRepos"))) =>
          exit = "failure" /\ ExitStatus(exit) # 0

====
